---------------------------- MODULE Spec2Model ----------------------------
(***************************************************************************)
(* A model of src/thread.c (libimobiledevice-glue): the thread, mutex,     *)
(* once-guard and condition-variable facade, in its two build-time         *)
(* variants (#ifdef _WIN32 ... #else ... #endif).                          *)
(*                                                                         *)
(* The variable build is the variant that was compiled; it never changes.  *)
(* Every function of thread.c is an action (or an operator used by one)    *)
(* whose body follows the branch of the #ifdef that build selects.  The    *)
(* callers of the functions are the most general clients that respect the  *)
(* documented preconditions (a mutex is unlocked only by its holder,       *)
(* cond_wait is called with the mutex held, a handle is not used after it  *)
(* was reclaimed), except where a specification says otherwise: the        *)
(* clients of SpecDestroy use the mutex and the condition variable after   *)
(* mutex_destroy and cond_destroy and initialize them again, those of      *)
(* SpecLife call thread_cancel on every handle.                            *)
(***************************************************************************)
EXTENDS Integers, Sequences, FiniteSets

VARIABLES
    build,      \* "win32" (_WIN32 defined) or "posix"
    pc,         \* where each client thread stands
    owner,      \* the mutex: the thread holding it, NoThread when free
    mutexOk,    \* the mutex was not destroyed with mutex_destroy
    entered,    \* the threads whose mutex_lock on the destroyed mutex has
                \* returned and that have not called mutex_unlock since
    semOk,      \* win32: CreateSemaphore in cond_init returned a handle
    sem,        \* win32: the semaphore's permit count
    call,       \* per thread: the wait function it is in
    wres,       \* per thread: what its wait primitive returned
    ret,        \* per thread: the return value of the wait it returns from
    sigRet,     \* per thread: the return value of its last cond_signal
    nSignal,    \* cond_signal calls that returned 0 so far
    nSigCalls,  \* cond_signal calls made so far
    nWoken,     \* waits that returned because of a signal so far
    winSig,     \* history, kept when observed: the thread that was the only
                \* one waiting, and still before its WaitForSingleObject,
                \* when a cond_signal succeeded, until its wait returns
    lock,       \* win32 once-guard: once_control->lock
    state,      \* win32 once-guard: once_control->state
    ctl,        \* posix once-guard: the pthread_once_t control's state
    nInitStart, \* executions of the initializer begun so far
    nInitDone,  \* executions of the initializer that have returned so far
    counter,    \* the shared counter the worker threads increment
    tmp,        \* per worker: the counter value it read
    iter,       \* per worker: increments it has completed
    seq,        \* the shared sequence the worker threads append to
    tstate,     \* per thread handle: the OS thread behind it
    entryRuns,  \* per thread handle: times its entry function was started
    hstate,     \* per thread handle: what the caller has done with it
    tid,        \* posix, per thread handle: the pthread_t stored in it (the
                \* thread descriptor it points to), 0 in a null handle
    jh,         \* the handle of the caller's thread_* call in progress
    jret,       \* the return value of the caller's thread_* call, while the
                \* caller has not gone on
    haveCancel, \* posix: the build defines HAVE_PTHREAD_CANCEL
    cancelReq,  \* per thread handle: a cancellation request is pending
    released,   \* per thread handle: times its native handle was released
    timeout_ms, \* posix cond_wait_timeout: the argument, an unsigned 32-bit
                \* value kept as two 16-bit halves [hi, lo]
    now,        \* posix cond_wait_timeout: struct timeval now
    ts          \* posix cond_wait_timeout: struct timespec ts

mutexVars == <<owner, mutexOk, entered>>
condVars  == <<semOk, sem, call, wres, ret, sigRet, nSignal, nSigCalls, nWoken,
               winSig>>
onceVars  == <<lock, state, ctl, nInitStart, nInitDone>>
workVars  == <<counter, tmp, iter, seq>>
thrVars   == <<tstate, entryRuns, hstate, tid, jh, jret>>
lifeVars  == <<haveCancel, cancelReq, released>>
dlVars    == <<timeout_ms, now, ts>>
vars      == <<build, pc, mutexVars, condVars, onceVars, workVars, thrVars,
               lifeVars, dlVars>>

\* what the mutex / condition-variable actions leave alone
notCond   == <<onceVars, workVars, thrVars, lifeVars, dlVars>>

---------------------------------------------------------------------------
(* Bounds of the model. *)

\* client threads using the mutex and the condition variable
CondThreads == 3
\* cond_signal calls made in one behaviour
MaxSignals == 2
\* threads racing thread_once on one guard (K)
OnceThreads == 3
\* worker threads of the mutex scenarios
MutexThreads == 3
\* increments each worker makes (N)
Increments == 2
\* thread handles created and joined
ThreadHandles == 2
\* waits released by a signal in the scenario that fills the semaphore
MaxSemWaits == 1
\* the low halves 0 .. MaxMsLow of timeout_ms are all tried
MaxMsLow == 1999

---------------------------------------------------------------------------
(* Program and platform constants. *)

\* CreateSemaphore(NULL, 0, 32767, NULL): the semaphore's maximum count
SEM_MAX == 32767
\* DWORD results of WaitForSingleObject (WAIT_FAILED is 0xFFFFFFFF, written
\* here as the same 32-bit pattern read as a signed value)
WAIT_OBJECT_0 == 0
WAIT_TIMEOUT == 258
WAIT_FAILED == -1
\* pthread_cond_timedwait's result when the deadline passes
ETIMEDOUT == 110
\* the result of a pthread call on an object that is not valid
EINVAL == 22

Builds == {"win32", "posix"}
NoThread == 0
CT == 1..CondThreads
OT == 1..OnceThreads
MT == 1..MutexThreads
TH == 1..ThreadHandles

---------------------------------------------------------------------------
(* Mutex: mutex_init, mutex_lock, mutex_unlock. *)

\* mutex_init: the mutex starts free
mutex_init ==
    /\ owner = NoThread
    /\ mutexOk = TRUE
    /\ entered = {}

\* mutant: the lock is taken without waiting for its holder
mutex_lock_nowait(t) ==
    /\ owner' = t
    /\ UNCHANGED <<mutexOk, entered>>

\* mutex_lock: EnterCriticalSection / pthread_mutex_lock; blocks (the step
\* is not enabled) while another thread holds the mutex.  On a destroyed
\* mutex the call returns at once and excludes nobody (pthread_mutex_lock
\* fails and the result is ignored)
mutex_lock(t) ==
    /\ IF mutexOk
       THEN /\ owner = NoThread
            /\ owner' = t
            /\ entered' = entered
       ELSE /\ owner' = owner
            /\ entered' = entered \cup {t}
    /\ mutexOk' = mutexOk

\* mutex_unlock: LeaveCriticalSection / pthread_mutex_unlock by the holder;
\* on a destroyed mutex by a thread whose mutex_lock has returned
mutex_unlock(t) ==
    /\ IF mutexOk
       THEN /\ owner = t
            /\ owner' = NoThread
            /\ entered' = entered
       ELSE /\ t \in entered
            /\ owner' = owner
            /\ entered' = entered \ {t}
    /\ mutexOk' = mutexOk

\* posix: the threads inside pthread_cond_wait / pthread_cond_timedwait
\* (blocked on the condition variable, or released and waiting for the
\* mutex): the C library counts them as users of the mutex
InsideWait == {w \in DOMAIN pc : pc[w] \in {"blocked", "reacquire"}}

\* mutex_destroy: DeleteCriticalSection / pthread_mutex_destroy.  posix:
\* pthread_mutex_destroy fails (EBUSY, discarded) on a mutex that is locked
\* or that a thread inside a wait still uses, and leaves it as it is.
\* Else the mutex is gone: a thread that held it (win32) is still between
\* its mutex_lock and its mutex_unlock.
mutex_destroy ==
    IF build = "posix" /\ (owner # NoThread \/ InsideWait # {})
    THEN UNCHANGED mutexVars
    ELSE /\ mutexOk' = FALSE
         /\ owner' = NoThread
         /\ entered' = IF owner # NoThread THEN entered \cup {owner}
                                           ELSE entered

\* mutex_init called again: InitializeCriticalSection / pthread_mutex_init
\* make a free mutex
mutex_reinit ==
    /\ mutexOk' = TRUE
    /\ owner' = NoThread
    /\ entered' = entered

---------------------------------------------------------------------------
(* Condition variable. *)

\* cond_init: win32 creates a semaphore with no permit (the handle is NULL,
\* unchecked, when CreateSemaphore fails); posix has no permit count
cond_init ==
    /\ sem = 0
    /\ semOk \in (IF build = "win32" THEN BOOLEAN ELSE {TRUE})

\* the threads blocked on the condition variable
Blocked == {w \in DOMAIN pc : pc[w] = "blocked"}

\* the switch of cond_wait (win32): only WAIT_OBJECT_0 is success
cond_wait_status(res) ==
    IF res = WAIT_OBJECT_0 THEN 0 ELSE -1

\* the switch of cond_wait_timeout (win32): WAIT_OBJECT_0 and WAIT_TIMEOUT
\* are both success
cond_wait_timeout_status(res) ==
    IF res = WAIT_OBJECT_0 \/ res = WAIT_TIMEOUT THEN 0 ELSE -1

\* win32: the value the wait function t is in returns for the DWORD res
Win32Status(t, res) ==
    IF call[t] = "cond_wait" THEN cond_wait_status(res)
    ELSE cond_wait_timeout_status(res)

\* a wait of thread w comes back with the primitive's result res and the
\* function's return value r; a result of 0 is a release by a signal
Finish(w, res, r, next) ==
    /\ wres' = [wres EXCEPT ![w] = res]
    /\ ret' = [ret EXCEPT ![w] = r]
    /\ pc' = [pc EXCEPT ![w] = next]
    /\ nWoken' = IF next = "ret" /\ res = 0 THEN nWoken + 1 ELSE nWoken

\* mutant: a permit posted while no thread is blocked is dropped
ReleaseSemaphore_lost ==
    IF Blocked # {}
    THEN /\ \E w \in Blocked :
               Finish(w, WAIT_OBJECT_0, Win32Status(w, WAIT_OBJECT_0), "ret")
         /\ sem' = sem
    ELSE UNCHANGED <<sem, pc, wres, ret, nWoken>>

\* ReleaseSemaphore(cond->sem, 1, NULL) succeeding: a thread blocked in
\* WaitForSingleObject is released at once, else the count goes up by one
ReleaseSemaphore ==
    IF Blocked # {}
    THEN /\ \E w \in Blocked :
               Finish(w, WAIT_OBJECT_0, Win32Status(w, WAIT_OBJECT_0), "ret")
         /\ sem' = sem
    ELSE /\ sem' = sem + 1
         /\ UNCHANGED <<pc, wres, ret, nWoken>>

\* mutant: the signal wakes nobody
pthread_cond_signal_lost ==
    UNCHANGED <<sem, pc, wres, ret, nWoken>>

\* pthread_cond_signal: one blocked thread, if any, is unblocked and goes on
\* to reacquire the mutex; with no thread blocked nothing happens
pthread_cond_signal ==
    /\ IF Blocked # {}
       THEN \E w \in Blocked : Finish(w, 0, 0, "reacquire")
       ELSE UNCHANGED <<pc, wres, ret, nWoken>>
    /\ sem' = sem

\* the value of winSig in the behaviours where that history is not kept
Unobserved == NoThread - 1

\* the threads inside a wait that has not been released yet
Waiting == {w \in CT : pc[w] \in {"unlocked", "blocked"}}

\* mutant: the semaphore's maximum count is not enforced
ReleaseSemaphoreFails_nocap == ~semOk

\* ReleaseSemaphore(cond->sem, 1, NULL) returns FALSE: there is no handle,
\* or one more permit would exceed the maximum count
ReleaseSemaphoreFails == ~semOk \/ sem + 1 > SEM_MAX

\* cond_signal, the whole call.
\* win32: result = 0, or -1 when ReleaseSemaphore fails (no handle, or the
\* count is at its maximum).  posix: pthread_cond_signal's 0.
cond_signal(t) ==
    /\ pc[t] = "idle"
    /\ nSigCalls' = nSigCalls + 1
    /\ IF build = "win32"
       THEN IF ~ReleaseSemaphoreFails
            THEN /\ ReleaseSemaphore
                 /\ sigRet' = [sigRet EXCEPT ![t] = 0]
                 /\ nSignal' = nSignal + 1
            ELSE /\ sigRet' = [sigRet EXCEPT ![t] = -1]
                 /\ UNCHANGED <<pc, sem, wres, ret, nSignal, nWoken>>
       ELSE /\ pthread_cond_signal
            /\ sigRet' = [sigRet EXCEPT ![t] = 0]
            /\ nSignal' = nSignal + 1
    /\ winSig' = IF /\ winSig # Unobserved
                    /\ build = "win32" /\ ~ReleaseSemaphoreFails
                    /\ \E w \in CT : Waiting = {w} /\ pc[w] = "unlocked"
                 THEN CHOOSE w \in CT : Waiting = {w}
                 ELSE winSig
    /\ UNCHANGED <<build, notCond, mutexVars, semOk, call>>

\* a client calls cond_signal (at most MaxSignals calls in a behaviour)
CondSignal(t) ==
    /\ nSigCalls < MaxSignals
    /\ cond_signal(t)

\* cond_wait / cond_wait_timeout are entered with the mutex held.
\* win32: mutex_unlock(mutex), then WaitForSingleObject is still to come.
\* posix: pthread_cond_(timed)wait releases the mutex and blocks in one step.
\* posix, on a destroyed mutex: pthread_cond_(timed)wait cannot release the
\* mutex and returns EINVAL at once.
WaitEnter(t, fn) ==
    /\ pc[t] = "idle"
    /\ call' = [call EXCEPT ![t] = fn]
    /\ IF build = "posix" /\ ~mutexOk
       THEN /\ t \in entered
            /\ Finish(t, EINVAL, EINVAL, "ret")
            /\ UNCHANGED mutexVars
       ELSE /\ mutex_unlock(t)
            /\ pc' = [pc EXCEPT ![t] =
                         IF build = "win32" THEN "unlocked" ELSE "blocked"]
            /\ UNCHANGED <<wres, ret, nWoken>>
    /\ UNCHANGED <<build, notCond, semOk, winSig,
                   sem, sigRet, nSignal, nSigCalls>>

CondWait(t) == WaitEnter(t, "cond_wait")

CondWaitTimeout(t) == WaitEnter(t, "cond_wait_timeout")

\* mutant: a wait that finds a permit returns without using it up (the
\* semaphore behaves like an event that stays set)
WaitForSingleObject_keep(t) ==
    /\ build = "win32"
    /\ pc[t] = "unlocked"
    /\ IF ~semOk
       THEN Finish(t, WAIT_FAILED, Win32Status(t, WAIT_FAILED), "ret")
       ELSE IF sem > 0
       THEN Finish(t, WAIT_OBJECT_0, Win32Status(t, WAIT_OBJECT_0), "ret")
       ELSE /\ pc' = [pc EXCEPT ![t] = "blocked"]
            /\ UNCHANGED <<wres, ret, nWoken>>
    /\ UNCHANGED <<build, notCond, mutexVars, semOk, winSig,
                   sem, call, sigRet, nSignal, nSigCalls>>

\* win32: WaitForSingleObject(cond->sem, ...) is entered: it fails on a NULL
\* handle, takes a permit at once when there is one, and blocks otherwise
WaitForSingleObject(t) ==
    /\ build = "win32"
    /\ pc[t] = "unlocked"
    /\ IF ~semOk
       THEN /\ Finish(t, WAIT_FAILED, Win32Status(t, WAIT_FAILED), "ret")
            /\ sem' = sem
       ELSE IF sem > 0
       THEN /\ Finish(t, WAIT_OBJECT_0, Win32Status(t, WAIT_OBJECT_0), "ret")
            /\ sem' = sem - 1
       ELSE /\ pc' = [pc EXCEPT ![t] = "blocked"]
            /\ UNCHANGED <<sem, wres, ret, nWoken>>
    /\ UNCHANGED <<build, notCond, mutexVars, semOk, winSig,
                   call, sigRet, nSignal, nSigCalls>>

\* the timeout of a blocked cond_wait_timeout passes.
\* win32: WaitForSingleObject returns WAIT_TIMEOUT and the switch maps it.
\* posix: pthread_cond_timedwait will return ETIMEDOUT once it has the mutex.
Timeout(t) ==
    /\ pc[t] = "blocked"
    /\ call[t] = "cond_wait_timeout"
    /\ IF build = "win32"
       THEN Finish(t, WAIT_TIMEOUT, Win32Status(t, WAIT_TIMEOUT), "ret")
       ELSE Finish(t, ETIMEDOUT, ETIMEDOUT, "reacquire")
    /\ UNCHANGED <<build, notCond, mutexVars, semOk, winSig,
                   sem, call, sigRet, nSignal, nSigCalls>>

\* posix: an unblocked pthread_cond_(timed)wait reacquires the mutex and
\* returns its result unchanged
Reacquire(t) ==
    /\ build = "posix"
    /\ pc[t] = "reacquire"
    /\ mutex_lock(t)
    /\ Finish(t, wres[t], wres[t], "ret")
    /\ UNCHANGED <<build, notCond, semOk, winSig,
                   sem, call, sigRet, nSignal, nSigCalls>>

\* the wait has returned: the caller goes on, and the call's result and
\* return value are gone with the call
Return(t) ==
    /\ pc[t] = "ret"
    /\ pc' = [pc EXCEPT ![t] = "idle"]
    /\ call' = [call EXCEPT ![t] = "none"]
    /\ wres' = [wres EXCEPT ![t] = 0]
    /\ ret' = [ret EXCEPT ![t] = 0]
    /\ winSig' = IF winSig = t THEN NoThread ELSE winSig
    /\ UNCHANGED <<build, notCond, mutexVars, semOk, sem, sigRet, nSignal, nSigCalls,
                   nWoken>>

\* a client locks the mutex it does not hold
MutexLock(t) ==
    /\ pc[t] = "idle"
    /\ owner # t /\ t \notin entered
    /\ mutex_lock(t)
    /\ UNCHANGED <<build, notCond, pc, condVars>>

\* a client unlocks the mutex it holds
MutexUnlock(t) ==
    /\ pc[t] = "idle"
    /\ mutex_unlock(t)
    /\ UNCHANGED <<build, notCond, pc, condVars>>

\* a client calls mutex_destroy
MutexDestroy(t) ==
    /\ pc[t] = "idle"
    /\ mutex_destroy
    /\ UNCHANGED <<build, notCond, pc, condVars>>

\* a client calls mutex_init on the destroyed mutex, when no thread is
\* between a mutex_lock and a mutex_unlock on it
MutexInit(t) ==
    /\ pc[t] = "idle"
    /\ ~mutexOk
    /\ entered = {}
    /\ mutex_reinit
    /\ UNCHANGED <<build, notCond, pc, condVars>>

\* a client calls cond_destroy.
\* win32: CloseHandle(cond->sem): the handle is no longer valid and the
\* permits are gone with the semaphore; a thread blocked on it stays blocked.
\* posix: pthread_cond_destroy waits (the step is not enabled) while a
\* thread is blocked on the condition variable, not for one that was
\* released and waits for the mutex; the C library's condition variable
\* goes on working after it.
CondDestroy(t) ==
    /\ pc[t] = "idle"
    /\ build = "posix" => \A w \in CT : pc[w] # "blocked"
    /\ semOk' = FALSE
    /\ sem' = 0
    /\ UNCHANGED <<build, notCond, pc, mutexVars, call, wres, ret, sigRet,
                   nSignal, nSigCalls, nWoken, winSig>>

\* a client calls cond_init on the condition variable after cond_destroy
\* (or after a cond_init that got no semaphore), with no thread blocked on
\* it.  win32: CreateSemaphore makes a new semaphore with no permit, or
\* fails; posix: pthread_cond_init.
CondReinit(t) ==
    /\ pc[t] = "idle"
    /\ ~semOk
    /\ \A w \in CT : pc[w] # "blocked"
    /\ semOk' \in (IF build = "win32" THEN BOOLEAN ELSE {TRUE})
    /\ sem' = 0
    /\ UNCHANGED <<build, notCond, pc, mutexVars, call, wres, ret, sigRet,
                   nSignal, nSigCalls, nWoken, winSig>>

\* the condition variable after cond_init, with the threads in T using it
CondInitWith(T, w) ==
    /\ cond_init
    /\ call = [t \in T |-> "none"]
    /\ wres = [t \in T |-> 0]
    /\ ret = [t \in T |-> 0]
    /\ sigRet = [t \in T |-> 0]
    /\ nSignal = 0
    /\ nSigCalls = 0
    /\ nWoken = 0
    /\ winSig = w

CondInit(T) == CondInitWith(T, Unobserved)

\* a once-guard as declared: lock and state 0, the initializer not yet run
OnceInit ==
    /\ lock = 0
    /\ state = 0
    /\ ctl = "init"
    /\ nInitStart = 0
    /\ nInitDone = 0

\* the shared data of the mutex scenarios before the workers start
WorkInit(T) ==
    /\ counter = 0
    /\ tmp = [t \in T |-> 0]
    /\ iter = [t \in T |-> 0]
    /\ seq = << >>

\* no cond_wait_timeout deadline is being computed
NoDeadline ==
    /\ timeout_ms = [hi |-> 0, lo |-> 0]
    /\ now = [tv_sec |-> 0, tv_usec |-> 0]
    /\ ts = [tv_sec |-> 0, tv_nsec |-> 0]

\* the handles in H before any thread is created: null handles; C holds
\* the build's choices for HAVE_PTHREAD_CANCEL
ThrInitWith(H, C) ==
    /\ tstate = [h \in H |-> "none"]
    /\ entryRuns = [h \in H |-> 0]
    /\ hstate = [h \in H |-> "null"]
    /\ tid = [h \in H |-> 0]
    /\ jh = 0
    /\ jret = 0
    /\ haveCancel \in C
    /\ cancelReq = [h \in H |-> FALSE]
    /\ released = [h \in H |-> 0]

\* the same in a build without HAVE_PTHREAD_CANCEL
ThrInit(H) == ThrInitWith(H, {FALSE})

Init ==
    /\ build \in Builds
    /\ pc = [t \in CT |-> "idle"]
    /\ mutex_init
    /\ CondInit(CT)
    /\ OnceInit
    /\ NoDeadline
    /\ WorkInit({})
    /\ ThrInit({})

Next ==
    \E t \in CT :
        \/ MutexLock(t)
        \/ MutexUnlock(t)
        \/ CondSignal(t)
        \/ CondWait(t)
        \/ CondWaitTimeout(t)
        \/ WaitForSingleObject(t)
        \/ Timeout(t)
        \/ Reacquire(t)
        \/ Return(t)

Spec == Init /\ [][Next]_vars

\* Scheduling: a call that can return does return, a held mutex is unlocked
\* in the end, and a waiter that finds the mutex free again and again gets it
Fairness ==
    \A t \in CT :
        /\ WF_vars(Return(t))
        /\ WF_vars(MutexUnlock(t))
        /\ SF_vars(Reacquire(t))

SpecFair == Spec /\ Fairness

---------------------------------------------------------------------------
(* The semaphore at its maximum: one client thread calls cond_signal until *)
(* the permit count has reached SEM_MAX and a little beyond, with a few    *)
(* waits in between.                                                       *)

\* the client thread of this scenario
Signaller == CHOOSE t \in CT : TRUE

\* cond_signal, until MaxSignals calls beyond the semaphore's maximum
SemSignal(t) ==
    /\ nSigCalls < SEM_MAX + MaxSignals
    /\ cond_signal(t)

\* cond_wait or cond_wait_timeout, while fewer than MaxSemWaits waits have
\* returned because of a signal
SemWait(t) ==
    /\ nWoken < MaxSemWaits
    /\ \/ CondWait(t)
       \/ CondWaitTimeout(t)

NextSem ==
    \E t \in {Signaller} :
        \/ SemSignal(t)
        \/ SemWait(t)
        \/ MutexLock(t)
        \/ MutexUnlock(t)
        \/ WaitForSingleObject(t)
        \/ Timeout(t)
        \/ Reacquire(t)
        \/ Return(t)

SpecSem == Init /\ [][NextSem]_vars

\* the same clients as in Spec; one of them also destroys the mutex and the
\* condition variable, at any time, and initializes them again, and all go
\* on using them
NextDestroy ==
    \/ \E t \in CT :
        \/ MutexLock(t)
        \/ MutexUnlock(t)
        \/ CondSignal(t)
        \/ CondWait(t)
        \/ CondWaitTimeout(t)
        \/ WaitForSingleObject(t)
        \/ Timeout(t)
        \/ Reacquire(t)
        \/ Return(t)
    \/ \E t \in {Signaller} :
        \/ MutexDestroy(t)
        \/ MutexInit(t)
        \/ CondDestroy(t)
        \/ CondReinit(t)

SpecDestroy == Init /\ [][NextDestroy]_vars

\* C11: cond_signal returns -1 exactly when the wake primitive could not be
\* released (win32: no semaphore handle, or the count is at 32767; posix:
\* never), and a failed call changes nothing; the permit count stays within
\* 0..32767; a cond_signal at a count below 32767 returns 0 and adds exactly
\* one permit (handed at once to a blocked thread if there is one); a
\* cond_signal at count 32767 returns -1 and leaves the count unchanged.
C11_SignalStatus ==
    /\ [](sem \in 0..SEM_MAX)
    /\ [][\A t \in CT : cond_signal(t) =>
            /\ sigRet'[t] \in {0, -1}
            /\ (sigRet'[t] = -1 <=>
                    build = "win32" /\ (~semOk \/ sem = SEM_MAX))
            /\ (sigRet'[t] = -1 => sem' = sem /\ pc' = pc /\ nWoken' = nWoken)
            /\ (sigRet'[t] = 0 /\ build = "win32" =>
                    IF Blocked = {}
                    THEN sem' = sem + 1 /\ pc' = pc
                    ELSE /\ sem' = sem
                         /\ Cardinality({w \in CT : pc'[w] # pc[w]}) = 1
                         /\ nWoken' = nWoken + 1)]_vars

\* C11 witness: the count is at 32767 and the cond_signal made there has
\* returned -1
C11_Witness ==
    /\ build = "win32" /\ semOk
    /\ sem = SEM_MAX
    /\ nSignal = SEM_MAX + nWoken
    /\ nSigCalls > nSignal
    /\ sigRet[Signaller] = -1

---------------------------------------------------------------------------
(* Once-guard: thread_once, raced by K threads on one guard. *)

\* what the once-guard actions leave alone
notOnce == <<mutexVars, condVars, workVars, thrVars, lifeVars, dlVars>>

\* mutant: the exchange's old value is ignored, every caller goes on
OnceAcquired_always(old) == TRUE

\* the exit test of the spin loop: InterlockedExchange(&lock, 1) returned 0
OnceAcquired(old) == old = 0

\* mutant: the state test is dropped, every caller runs the initializer
OnceNotRun_always(s) == TRUE

\* the test if (!once_control->state)
OnceNotRun(s) == s = 0

\* thread_once is called.
\* win32: the caller is about to do its first InterlockedExchange.
\* posix: the caller is in pthread_once.
OnceEnter(t) ==
    /\ pc[t] = "idle"
    /\ pc' = [pc EXCEPT ![t] = IF build = "win32" THEN "xchg" ELSE "p_once"]
    /\ UNCHANGED <<build, onceVars, notOnce>>

\* mutant: the lock field is read but 1 is not stored
OnceExchange_read(t) ==
    /\ build = "win32"
    /\ pc[t] = "xchg"
    /\ lock' = lock
    /\ pc' = [pc EXCEPT ![t] = IF OnceAcquired(lock) THEN "test" ELSE "sleep"]
    /\ UNCHANGED <<build, state, ctl, nInitStart, nInitDone, notOnce>>

\* win32: InterlockedExchange(&(once_control->lock), 1) stores 1 and returns
\* the old value; the loop goes on (Sleep) unless the old value was 0
OnceExchange(t) ==
    /\ build = "win32"
    /\ pc[t] = "xchg"
    /\ lock' = 1
    /\ pc' = [pc EXCEPT ![t] = IF OnceAcquired(lock) THEN "test" ELSE "sleep"]
    /\ UNCHANGED <<build, state, ctl, nInitStart, nInitDone, notOnce>>

\* win32: Sleep(1) is over, the loop tries the exchange again
OnceSleep(t) ==
    /\ build = "win32"
    /\ pc[t] = "sleep"
    /\ pc' = [pc EXCEPT ![t] = "xchg"]
    /\ UNCHANGED <<build, onceVars, notOnce>>

\* win32: if (!once_control->state) { once_control->state = 1; ...
OnceTest(t) ==
    /\ build = "win32"
    /\ pc[t] = "test"
    /\ IF OnceNotRun(state)
       THEN /\ state' = 1
            /\ pc' = [pc EXCEPT ![t] = "init"]
       ELSE /\ state' = state
            /\ pc' = [pc EXCEPT ![t] = "unlock"]
    /\ UNCHANGED <<build, lock, ctl, nInitStart, nInitDone, notOnce>>

\* posix: pthread_once(once_control, init_routine): the first caller runs the
\* initializer, a caller that finds it running blocks, a later caller returns
pthread_once(t) ==
    /\ build = "posix"
    /\ pc[t] = "p_once"
    /\ ctl # "running"
    /\ IF ctl = "init"
       THEN /\ ctl' = "running"
            /\ pc' = [pc EXCEPT ![t] = "init"]
       ELSE /\ ctl' = ctl
            /\ pc' = [pc EXCEPT ![t] = "done"]
    /\ UNCHANGED <<build, lock, state, nInitStart, nInitDone, notOnce>>

\* mutant: the lock is released before init_routine() is called
InitRoutineCall_unlocked(t) ==
    /\ pc[t] = "init"
    /\ nInitStart' = nInitStart + 1
    /\ lock' = 0
    /\ pc' = [pc EXCEPT ![t] = "running"]
    /\ UNCHANGED <<build, state, ctl, nInitDone, notOnce>>

\* init_routine() is called
InitRoutineCall(t) ==
    /\ pc[t] = "init"
    /\ nInitStart' = nInitStart + 1
    /\ pc' = [pc EXCEPT ![t] = "running"]
    /\ UNCHANGED <<build, lock, state, ctl, nInitDone, notOnce>>

\* init_routine() returns.
\* win32: the release of the lock is next.  posix: pthread_once returns.
InitRoutineReturn(t) ==
    /\ pc[t] = "running"
    /\ nInitDone' = nInitDone + 1
    /\ IF build = "win32"
       THEN /\ pc' = [pc EXCEPT ![t] = "unlock"]
            /\ ctl' = ctl
       ELSE /\ pc' = [pc EXCEPT ![t] = "done"]
            /\ ctl' = "done"
    /\ UNCHANGED <<build, lock, state, nInitStart, notOnce>>

\* mutant: thread_once returns without storing 0 in the lock field
OnceRelease_keep(t) ==
    /\ build = "win32"
    /\ pc[t] = "unlock"
    /\ lock' = lock
    /\ pc' = [pc EXCEPT ![t] = "done"]
    /\ UNCHANGED <<build, state, ctl, nInitStart, nInitDone, notOnce>>

\* win32: InterlockedExchange(&(once_control->lock), 0), and thread_once
\* returns
OnceRelease(t) ==
    /\ build = "win32"
    /\ pc[t] = "unlock"
    /\ lock' = 0
    /\ pc' = [pc EXCEPT ![t] = "done"]
    /\ UNCHANGED <<build, state, ctl, nInitStart, nInitDone, notOnce>>

\* K of the threads (1 <= K <= OnceThreads) are about to call thread_once
InitOnce ==
    /\ build \in Builds
    /\ \E K \in OT : pc = [t \in OT |-> IF t <= K THEN "idle" ELSE "absent"]
    /\ mutex_init
    /\ CondInit({})
    /\ OnceInit
    /\ NoDeadline
    /\ WorkInit({})
    /\ ThrInit({})

NextOnce ==
    \E t \in OT :
        \/ OnceEnter(t)
        \/ OnceExchange(t)
        \/ OnceSleep(t)
        \/ OnceTest(t)
        \/ pthread_once(t)
        \/ InitRoutineCall(t)
        \/ InitRoutineReturn(t)
        \/ OnceRelease(t)

SpecOnce == InitOnce /\ [][NextOnce]_vars

\* the callers of thread_once, and those whose call has returned
OnceCallers == {t \in OT : pc[t] # "absent"}
OnceReturned == {t \in OT : pc[t] = "done"}

\* C3: for every K >= 1 and every interleaving, when all K thread_once calls
\* on the guard have returned the initializer has been executed exactly once
\* (and it is never started a second time).
C3_InitExactlyOnce ==
    /\ nInitStart <= 1
    /\ (OnceReturned = OnceCallers => nInitStart = 1 /\ nInitDone = 1)

\* C3 witness: three callers raced and all three calls have returned
C3_Witness ==
    /\ Cardinality(OnceCallers) >= 3
    /\ OnceReturned = OnceCallers

\* C4: no thread_once call has returned unless the one execution of the
\* initializer has returned; a caller that does not run the initializer is
\* still inside thread_once while the initializer runs.
C4_NoReturnBeforeInitDone ==
    /\ (OnceReturned # {} => nInitDone = 1)
    /\ (nInitStart > nInitDone =>
            \A t \in OnceCallers : pc[t] # "done")

\* C4 witness: the initializer is running while two other callers are
\* inside thread_once, held back
C4_Witness ==
    /\ nInitStart = 1 /\ nInitDone = 0
    /\ Cardinality({t \in OT : pc[t] \in {"xchg", "sleep", "p_once"}}) >= 2

\* fair scheduling of the callers: a caller that can take its next step
\* takes it in the end; the initializer returns
OnceFairness ==
    \A t \in OT :
        /\ WF_vars(OnceEnter(t))
        /\ WF_vars(OnceExchange(t))
        /\ WF_vars(OnceSleep(t))
        /\ WF_vars(OnceTest(t))
        /\ WF_vars(pthread_once(t))
        /\ WF_vars(InitRoutineCall(t))
        /\ WF_vars(InitRoutineReturn(t))
        /\ WF_vars(OnceRelease(t))

SpecOnceFair == SpecOnce /\ OnceFairness

\* win32: the callers between the exchange that returned 0 and the exchange
\* that stores 0
OnceHolders == {t \in OT : pc[t] \in {"test", "init", "running", "unlock"}}

\* callers inside thread_once
OnceInside == {t \in OT : pc[t] \notin {"idle", "done", "absent"}}

\* C14 as stated: in the win32 once-guard the state field is 1 only if the
\* initializer has already returned, never while it has not started or is
\* still executing.
C14_StateOnlyAfterInit ==
    build = "win32" => (state = 1 => nInitDone >= 1)

\* C14 amended: in the win32 once-guard the state field becomes 1 when the
\* caller holding the lock commits to running the initializer, before the
\* initializer is called; while state is 1 and the initializer has not
\* returned the lock is 1 and its one holder is the caller running the
\* initializer, so a caller that tests the state and finds 1 does so only
\* after the initializer has returned.
C14_StateSeenOnlyAfterInit ==
    build = "win32" =>
        /\ (state = 1 /\ nInitDone = 0 =>
                /\ lock = 1
                /\ \E t \in OT : /\ pc[t] \in {"init", "running"}
                                 /\ OnceHolders = {t})
        /\ \A t \in OT : pc[t] = "test" /\ state = 1 => nInitDone = 1
        /\ (state = 0 => nInitStart = 0)

\* C14 witness: the initializer has returned and a later caller, holding the
\* lock, is about to test the state and find 1
C14_Witness ==
    /\ build = "win32"
    /\ state = 1 /\ nInitDone = 1
    /\ \E t \in OT : pc[t] = "test"

\* C16: in the win32 once-guard, with an initializer that returns, every one
\* of the callers of thread_once returns in the end under fair scheduling,
\* and whenever a call has returned and no caller is inside thread_once the
\* lock field is 0 and the state field is 1.
C16_OnceTerminates ==
    /\ <>(build = "win32" => OnceReturned = OnceCallers)
    /\ [](build = "win32" /\ OnceReturned # {} /\ OnceInside = {}
            => lock = 0 /\ state = 1)

\* C16 witness: at least two callers raced on the win32 guard, all have
\* returned, and the guard is left unlocked and run
C16_Witness ==
    /\ build = "win32"
    /\ Cardinality(OnceCallers) >= 2
    /\ OnceReturned = OnceCallers
    /\ lock = 0 /\ state = 1

\* C17: in the win32 once-guard a caller comes to test or write the state
\* field only through an interlocked exchange that found the lock 0 and
\* stored 1; at most one caller is between acquiring and releasing the lock,
\* the lock is 1 meanwhile, and the state field changes only in a step of
\* that caller.
C17_StateUnderLock ==
    /\ [](build = "win32" =>
            /\ Cardinality(OnceHolders) <= 1
            /\ (OnceHolders # {} => lock = 1))
    /\ [][build = "win32" =>
            /\ \A t \in OT :
                  pc[t] # "test" /\ pc'[t] = "test" =>
                      pc[t] = "xchg" /\ lock = 0 /\ lock' = 1
            /\ (state' # state =>
                  \E t \in OnceHolders : pc[t] = "test" /\ pc'[t] = "init")
          ]_vars

\* C17 witness: one caller holds the lock and is about to test the state
\* for the first time while another caller, refused by the exchange, sleeps
C17_Witness ==
    /\ build = "win32"
    /\ state = 0
    /\ \E t, u \in OT : pc[t] = "test" /\ pc[u] = "sleep"

---------------------------------------------------------------------------
(* Mutex scenarios: K workers (threads 1 .. K); every worker increments    *)
(* the shared counter Increments times (a read, then a write of the value  *)
(* read plus one) and appends its index to the shared sequence once, each  *)
(* time between mutex_lock and mutex_unlock.                               *)

\* what the worker actions leave alone
notWork == <<condVars, onceVars, thrVars, lifeVars, dlVars>>

\* the workers between the return of mutex_lock and their mutex_unlock
InCritical == {t \in MT : pc[t] \in {"read", "write", "append", "unlock"}}

\* a worker with increments left calls mutex_lock and gets the mutex
WorkLock(t) ==
    /\ pc[t] = "idle"
    /\ iter[t] < Increments
    /\ mutex_lock(t)
    /\ pc' = [pc EXCEPT ![t] = "read"]
    /\ UNCHANGED <<build, workVars, notWork>>

\* the worker reads the counter
WorkRead(t) ==
    /\ pc[t] = "read"
    /\ tmp' = [tmp EXCEPT ![t] = counter]
    /\ pc' = [pc EXCEPT ![t] = "write"]
    /\ UNCHANGED <<build, mutexVars, counter, iter, seq, notWork>>

\* the worker writes the counter; its first time round the append is next
WorkWrite(t) ==
    /\ pc[t] = "write"
    /\ counter' = tmp[t] + 1
    /\ pc' = [pc EXCEPT ![t] = IF iter[t] = 0 THEN "append" ELSE "unlock"]
    /\ UNCHANGED <<build, mutexVars, tmp, iter, seq, notWork>>

\* the worker appends its index (0 .. MutexThreads - 1) to the sequence
WorkAppend(t) ==
    /\ pc[t] = "append"
    /\ seq' = Append(seq, t - 1)
    /\ pc' = [pc EXCEPT ![t] = "unlock"]
    /\ UNCHANGED <<build, mutexVars, counter, tmp, iter, notWork>>

\* the worker calls mutex_unlock; after its last increment it is done
WorkUnlock(t) ==
    /\ pc[t] = "unlock"
    /\ mutex_unlock(t)
    /\ iter' = [iter EXCEPT ![t] = iter[t] + 1]
    /\ pc' = [pc EXCEPT ![t] = IF iter[t] + 1 = Increments THEN "done" ELSE "idle"]
    /\ UNCHANGED <<build, counter, tmp, seq, notWork>>

\* the workers of the scenario
Workers == {t \in MT : pc[t] # "absent"}

InitMutex ==
    /\ build \in Builds
    /\ \E K \in MT : pc = [t \in MT |-> IF t <= K THEN "idle" ELSE "absent"]
    /\ mutex_init
    /\ CondInit({})
    /\ OnceInit
    /\ NoDeadline
    /\ WorkInit(MT)
    /\ ThrInit({})

NextMutex ==
    \E t \in MT :
        \/ WorkLock(t)
        \/ WorkRead(t)
        \/ WorkWrite(t)
        \/ WorkAppend(t)
        \/ WorkUnlock(t)

SpecMutex == InitMutex /\ [][NextMutex]_vars

\* C5: at most one thread is between the return of its mutex_lock and its
\* mutex_unlock; so when all K workers are done the counter is exactly
\* K * Increments, and the sequence has exactly K entries and is a
\* permutation of 0 .. K - 1.
C5_MutualExclusion ==
    /\ Cardinality(InCritical) <= 1
    /\ (\A t \in Workers : pc[t] = "done") =>
          /\ counter = Cardinality(Workers) * Increments
          /\ Len(seq) = Cardinality(Workers)
          /\ {seq[i] : i \in 1..Len(seq)} = 0..(Cardinality(Workers) - 1)

\* C5 witness: all MutexThreads workers are done, and the last worker's
\* append came first (the workers did not run one after the other in order)
C5_Witness ==
    /\ Workers = MT
    /\ \A t \in MT : pc[t] = "done"
    /\ counter = MutexThreads * Increments
    /\ seq[1] = MutexThreads - 1

---------------------------------------------------------------------------
(* Threads: thread_new, thread_join, thread_alive, called by one caller    *)
(* on the handles in TH; behind each handle the OS runs the entry function *)
(* once.                                                                   *)

\* what no thread_* function touches
notLife == <<mutexVars, condVars, onceVars, workVars, dlVars>>

\* what thread_new, thread_alive and the running thread leave alone
notThr == <<notLife, lifeVars>>

\* the process was not killed by a signal raised inside a call
ProcessAlive == pc["caller"] # "crashed"

\* pthread_create's result when no thread could be created
EAGAIN == 11
\* pthread_kill's result for a thread ID that names no thread
ESRCH == 3

\* the thread behind the handle h exists: it was created and is neither
\* joined nor reclaimed
Live(h) == tstate[h] \in {"created", "running", "exited", "cancelled"}

\* posix: the thread descriptors; a pthread_t is the address of one
TD == 1..ThreadHandles

\* posix: the descriptors pthread_create can take for the thread ID it
\* stores in the handle g.  No thread that exists has it: it is the
\* descriptor of a reclaimed thread, whose ID another handle may still hold
\* (the C library uses the descriptors again), or a new one (one that no
\* other handle holds: the one numbered as the handle, else the first)
Descriptors(g) ==
    LET free  == {d \in TD : \A h \in TH : tid[h] = d => ~Live(h)}
        held  == {tid[h] : h \in TH \ {g}}
        fresh == free \ held
    IN  (free \cap held)
            \cup (IF g \in fresh THEN {g}
                  ELSE {d \in fresh : \A e \in fresh : d <= e})

\* posix: the threads that exist and have the thread ID stored in h (one at
\* most): the thread created for h while it is not reclaimed; for the ID
\* of a reclaimed thread, or the one a failed thread_new left, the thread
\* that was given the same descriptor since
Target(h) == {g \in TH : tid[g] = tid[h] /\ Live(g)}

\* thread_new succeeds: CreateThread / pthread_create started a thread that
\* will run thread_func(data); the handle is stored and 0 returned
ThreadNew(h) ==
    /\ pc["caller"] = "idle"
    /\ hstate[h] \in {"null", "dangling"}
    /\ tstate' = [tstate EXCEPT ![h] = "created"]
    /\ hstate' = [hstate EXCEPT ![h] = "valid"]
    /\ IF build = "posix"
       THEN \E d \in Descriptors(h) : tid' = [tid EXCEPT ![h] = d]
       ELSE tid' = tid
    /\ jh' = h
    /\ jret' = 0
    /\ pc' = [pc EXCEPT !["caller"] = "new_ret"]
    /\ UNCHANGED <<build, entryRuns, notThr>>

\* thread_new fails: -1 for a NULL CreateThread, and *thread is not
\* written; else pthread_create's error, and pthread_create may have stored
\* a thread ID in *thread before it failed: the handle is then not null and
\* holds the ID of a descriptor that was given back.  No thread runs.
ThreadNewFail(h) ==
    /\ pc["caller"] = "idle"
    /\ hstate[h] \in {"null", "dangling"}
    /\ jh' = h
    /\ jret' = IF build = "win32" THEN -1 ELSE EAGAIN
    /\ \/ UNCHANGED <<hstate, tid>>
       \/ /\ build = "posix"
          /\ hstate' = [hstate EXCEPT ![h] = "dangling"]
          /\ \E d \in Descriptors(h) : tid' = [tid EXCEPT ![h] = d]
    /\ pc' = [pc EXCEPT !["caller"] = "new_ret"]
    /\ UNCHANGED <<build, tstate, entryRuns, notThr>>

\* the OS starts the new thread: thread_func(data) is entered
EntryStart(h) ==
    /\ ProcessAlive
    /\ tstate[h] = "created"
    /\ tstate' = [tstate EXCEPT ![h] = "running"]
    /\ entryRuns' = [entryRuns EXCEPT ![h] = entryRuns[h] + 1]
    /\ UNCHANGED <<build, pc, hstate, tid, jh, jret, notThr>>

\* posix: the thread behind h was detached with pthread_detach (thread_free
\* after it does nothing)
Detached(h) == build = "posix" /\ hstate[h] \in {"detached", "freed"}

\* thread_func returns and the thread ends, and a cancellation request it
\* did not act on ends with it; it stays joinable, unless it was detached
\* with pthread_detach: then it is reclaimed at once
EntryReturn(h) ==
    /\ ProcessAlive
    /\ tstate[h] = "running"
    /\ tstate' = [tstate EXCEPT ![h] =
                    IF Detached(h) THEN "reaped" ELSE "exited"]
    /\ cancelReq' = [cancelReq EXCEPT ![h] = FALSE]
    /\ UNCHANGED <<build, pc, entryRuns, hstate, tid, jh, jret, haveCancel,
                   released, notLife>>

\* mutant: the join does not wait for the thread (a wait of 0 ms)
Terminated_nowait(h) == TRUE

\* the thread behind h has ended (its entry function returned, or it was
\* cancelled): its thread object is signaled (win32), it can be joined
\* (posix)
Terminated(h) == tstate[h] \in {"exited", "cancelled"}

\* thread_join is called on a created, not yet joined handle
ThreadJoin(h) ==
    /\ pc["caller"] = "idle"
    /\ hstate[h] = "valid"
    /\ jh' = h
    /\ pc' = [pc EXCEPT !["caller"] = "joining"]
    /\ UNCHANGED <<build, tstate, entryRuns, hstate, tid, jret, notThr>>

\* CloseHandle(thread) is called once more on the handle h
CloseHandle(h) == [released EXCEPT ![h] = released[h] + 1]

\* pthread_join / pthread_detach give up the thread behind h: the thread ID
\* is released once more
pthread_release(h) == [released EXCEPT ![h] = released[h] + 1]

\* thread_join returns: WaitForSingleObject(thread, INFINITE) returns
\* WAIT_OBJECT_0 / pthread_join returns 0 once the thread has ended;
\* pthread_join also reclaims the thread, WaitForSingleObject leaves the
\* handle open
ThreadJoinReturn ==
    /\ pc["caller"] = "joining"
    /\ Terminated(jh)
    /\ jret' = IF build = "win32" THEN WAIT_OBJECT_0 ELSE 0
    /\ hstate' = [hstate EXCEPT ![jh] = "joined"]
    /\ tstate' = IF build = "posix"
                 THEN [tstate EXCEPT ![jh] = "reaped"]
                 ELSE tstate
    /\ released' = IF build = "posix" THEN pthread_release(jh) ELSE released
    /\ pc' = [pc EXCEPT !["caller"] = "join_ret"]
    /\ UNCHANGED <<build, entryRuns, tid, jh, haveCancel, cancelReq, notLife>>

\* win32: WaitForSingleObject(thread, 0) on a thread handle
ThreadWait0(h) ==
    IF tstate[h] = "exited" THEN {WAIT_OBJECT_0} ELSE {WAIT_TIMEOUT}

\* posix: pthread_kill(thread, 0) on a thread not yet joined: 0 while it
\* runs; once it has ended its ID stays valid until the join, and the C
\* library answers 0 (the ID is valid) or ESRCH (the kernel thread is gone).
\* On the ID that a failed pthread_create left behind the call is
\* undefined: while a thread has that ID it answers for that thread, else
\* it answers 0 or an error, or the process is killed (see ThreadAlive)
pthread_kill0(h) ==
    IF Target(h) = {} THEN {0, ESRCH, EINVAL}
    ELSE IF \E g \in Target(h) : tstate[g] \in {"exited", "cancelled"}
    THEN {0, ESRCH}
    ELSE {0}

\* the values thread_alive can return for the handle h
thread_alive(h) ==
    IF hstate[h] = "null" THEN {0}
    ELSE IF build = "win32"
    THEN {IF r = WAIT_TIMEOUT THEN 1 ELSE 0 : r \in ThreadWait0(h)}
    ELSE {IF r = 0 THEN 1 ELSE 0 : r \in pthread_kill0(h)}

\* thread_alive is called on a null handle, on a created, not yet joined
\* one, or on the one a failed thread_new left, and returns; on the last the
\* process may be killed inside pthread_kill instead
ThreadAlive(h) ==
    /\ pc["caller"] = "idle"
    /\ hstate[h] \in {"null", "valid", "dangling"}
    /\ jh' = h
    /\ \/ /\ jret' \in thread_alive(h)
          /\ pc' = [pc EXCEPT !["caller"] = "alive_ret"]
       \/ /\ hstate[h] = "dangling" /\ Target(h) = {}
          /\ jret' = jret
          /\ pc' = [pc EXCEPT !["caller"] = "crashed"]
    /\ UNCHANGED <<build, tstate, entryRuns, hstate, tid, notThr>>

\* the caller goes on after a call has returned: the call's argument and
\* its return value are gone with the call
CallerReturn ==
    /\ pc["caller"] \in {"new_ret", "join_ret", "alive_ret",
                        "detach_ret", "free_ret", "cancel_ret"}
    /\ pc' = [pc EXCEPT !["caller"] = "idle"]
    /\ jh' = 0
    /\ jret' = 0
    /\ UNCHANGED <<build, tstate, entryRuns, hstate, tid, notThr>>

InitThread ==
    /\ build \in Builds
    /\ pc = [c \in {"caller"} |-> "idle"]
    /\ mutex_init
    /\ CondInit({})
    /\ OnceInit
    /\ NoDeadline
    /\ WorkInit({})
    /\ ThrInit(TH)

NextThread ==
    \/ \E h \in TH :
        \/ ThreadNew(h)
        \/ ThreadNewFail(h)
        \/ EntryStart(h)
        \/ EntryReturn(h)
        \/ ThreadJoin(h)
        \/ ThreadAlive(h)
    \/ ThreadJoinReturn
    \/ CallerReturn

SpecThread == InitThread /\ [][NextThread]_vars

\* C6: the entry function of a created thread is run once only, and when
\* thread_join on its handle has returned it has run exactly once and has
\* returned; thread_join does not return while it is still running.
C6_JoinAfterEntryReturned ==
    \A h \in TH :
        /\ entryRuns[h] <= 1
        /\ hstate[h] = "joined" =>
              /\ entryRuns[h] = 1
              /\ tstate[h] \in {"exited", "reaped"}

\* C6 witness: every handle was created and joined, and the last join has
\* just returned 0
C6_Witness ==
    /\ \A h \in TH : hstate[h] = "joined"
    /\ pc["caller"] = "join_ret" /\ jret = 0

\* C10: on both platform paths a thread_alive call on the handle of a thread
\* whose entry function has returned, and which was not yet joined or
\* detached, returns 0.
C10_AliveFalseAfterExit ==
    [][\A h \in TH :
          (/\ pc["caller"] = "idle" /\ pc'["caller"] = "alive_ret"
           /\ jh' = h /\ tstate[h] = "exited")
          => jret' = 0]_vars

---------------------------------------------------------------------------
(* The life of a thread handle: the calls above and thread_detach,         *)
(* thread_free and thread_cancel.  A handle is reclaimed by thread_join    *)
(* alone, or by thread_detach followed by thread_free.                     *)

\* thread_detach on a created handle that was not joined: CloseHandle /
\* pthread_detach.  A detached posix thread that has ended is reclaimed.
ThreadDetach(h) ==
    /\ pc["caller"] = "idle"
    /\ hstate[h] = "valid"
    /\ released' = IF build = "win32" THEN CloseHandle(h)
                                      ELSE pthread_release(h)
    /\ tstate' = IF build = "posix" /\ Terminated(h)
                 THEN [tstate EXCEPT ![h] = "reaped"]
                 ELSE tstate
    /\ hstate' = [hstate EXCEPT ![h] = "detached"]
    /\ jh' = h
    /\ pc' = [pc EXCEPT !["caller"] = "detach_ret"]
    /\ UNCHANGED <<build, entryRuns, tid, jret, haveCancel, cancelReq,
                   notLife>>

\* thread_free on a detached handle: CloseHandle on win32, nothing on posix
ThreadFree(h) ==
    /\ pc["caller"] = "idle"
    /\ hstate[h] = "detached"
    /\ released' = IF build = "win32" THEN CloseHandle(h) ELSE released
    /\ hstate' = [hstate EXCEPT ![h] = "freed"]
    /\ jh' = h
    /\ pc' = [pc EXCEPT !["caller"] = "free_ret"]
    /\ UNCHANGED <<build, tstate, entryRuns, tid, jret, haveCancel,
                   cancelReq, notLife>>

\* mutant: every posix build calls pthread_cancel
CancelSupported_posix == build = "posix"

\* thread_cancel reaches pthread_cancel: not _WIN32, and HAVE_PTHREAD_CANCEL
CancelSupported == build = "posix" /\ haveCancel

\* the thread ID in the handle h is that of a thread that exists
Cancellable(h) == Target(h) # {}

\* pthread_cancel(thread): 0 and a pending request for the thread that has
\* this ID (no request is left on one that has ended): the handle's own
\* thread, also after thread_free, which does nothing; for the ID of a
\* joined or reclaimed thread, or the one a failed thread_new left, the
\* thread that was given the same descriptor since.  With no such thread
\* the call is undefined: pthread_cancel reads the thread's descriptor
\* through the ID, so on the null handle the process is killed (SIGSEGV);
\* on another ID it is killed or the C library answers 0 or ESRCH
pthread_cancel(h) ==
    IF Cancellable(h)
    THEN /\ jret' = 0
         /\ \E g \in Target(h) :
               cancelReq' = [cancelReq EXCEPT ![g] =
                                tstate[g] \in {"created", "running"}]
         /\ pc' = [pc EXCEPT !["caller"] = "cancel_ret"]
    ELSE /\ UNCHANGED cancelReq
         /\ \/ /\ hstate[h] # "null"
               /\ jret' \in {0, ESRCH}
               /\ pc' = [pc EXCEPT !["caller"] = "cancel_ret"]
            \/ /\ jret' = jret
               /\ pc' = [pc EXCEPT !["caller"] = "crashed"]

\* thread_cancel, the whole call, on any handle in any state
ThreadCancel(h) ==
    /\ pc["caller"] = "idle"
    /\ IF CancelSupported
       THEN pthread_cancel(h)
       ELSE /\ jret' = -1
            /\ pc' = [pc EXCEPT !["caller"] = "cancel_ret"]
            /\ UNCHANGED cancelReq
    /\ jh' = h
    /\ UNCHANGED <<build, tstate, entryRuns, hstate, tid, haveCancel,
                   released, notLife>>

\* a thread with a pending cancellation request reaches a cancellation
\* point and ends without its entry function returning; it stays joinable,
\* unless it was detached
Cancelled(h) ==
    /\ ProcessAlive
    /\ tstate[h] \in {"created", "running"}
    /\ cancelReq[h]
    /\ tstate' = [tstate EXCEPT ![h] =
                    IF Detached(h) THEN "reaped" ELSE "cancelled"]
    /\ cancelReq' = [cancelReq EXCEPT ![h] = FALSE]
    /\ UNCHANGED <<build, pc, entryRuns, hstate, tid, jh, jret, haveCancel,
                   released, notLife>>

InitLife ==
    /\ build \in Builds
    /\ pc = [c \in {"caller"} |-> "idle"]
    /\ mutex_init
    /\ CondInit({})
    /\ OnceInit
    /\ NoDeadline
    /\ WorkInit({})
    /\ ThrInitWith(TH, BOOLEAN)

NextLife ==
    \/ \E h \in TH :
        \/ ThreadNew(h)
        \/ ThreadNewFail(h)
        \/ EntryStart(h)
        \/ EntryReturn(h)
        \/ ThreadJoin(h)
        \/ ThreadAlive(h)
        \/ ThreadDetach(h)
        \/ ThreadFree(h)
        \/ ThreadCancel(h)
        \/ Cancelled(h)
    \/ ThreadJoinReturn
    \/ CallerReturn

SpecLife == InitLife /\ [][NextLife]_vars

\* C12: on the win32 build and on every build without HAVE_PTHREAD_CANCEL a
\* thread_cancel call returns, with -1, whatever the handle and whatever the state
\* of the thread behind it, and changes nothing: the thread keeps its state
\* (it runs on), the handle keeps its state (it can still be joined), no
\* cancellation request is ever pending and no thread ever ends cancelled.
C12_CancelUnsupported ==
    /\ [][\A h \in TH :
            (ThreadCancel(h) /\ (build = "win32" \/ ~haveCancel))
            => /\ pc'["caller"] = "cancel_ret"
               /\ jret' = -1
               /\ UNCHANGED <<tstate, hstate, tid, entryRuns, cancelReq,
                              released>>]_vars
    /\ [](build = "win32" \/ ~haveCancel =>
            \A h \in TH : ~cancelReq[h] /\ tstate[h] # "cancelled")

\* C12 witness: in a posix build without HAVE_PTHREAD_CANCEL thread_cancel
\* has returned -1 for a running thread, which still runs and whose handle
\* can still be joined
C12_Witness ==
    /\ pc["caller"] = "cancel_ret"
    /\ build = "posix" /\ ~haveCancel
    /\ jret = -1
    /\ tstate[jh] = "running"
    /\ hstate[jh] = "valid"

\* C13: along both documented paths (thread_join alone; thread_detach then
\* thread_free) and in both builds the native handle of a thread is
\* released exactly once: never a second time, and it has been released
\* when the path has ended.
C13_HandleReleasedOnce ==
    \A h \in TH :
        /\ released[h] <= 1
        /\ hstate[h] \in {"joined", "freed"} => released[h] = 1

---------------------------------------------------------------------------
(* The deadline of the posix cond_wait_timeout: lines 212-215 of thread.c, *)
(* one action per line.  timeout_ms is an unsigned 32-bit value; it is     *)
(* kept as its two 16-bit halves, and its quotient and remainder by 1000   *)
(* are computed from the halves by long division.                          *)

\* what the deadline computation leaves alone
notDl == <<mutexVars, condVars, onceVars, workVars, thrVars, lifeVars>>

\* the weight of the high half of a 32-bit value
Half == 2^16

\* timeout_ms / 1000 in unsigned 32-bit arithmetic
udiv1000(t) ==
    ((t.hi \div 1000) * Half) + ((((t.hi % 1000) * Half) + t.lo) \div 1000)

\* timeout_ms % 1000 in unsigned 32-bit arithmetic
umod1000(t) == (((t.hi % 1000) * Half) + t.lo) % 1000

\* mutant: the whole seconds in tv_nsec are dropped, not carried
NsecCarry_none(n) == 0

\* ts.tv_nsec / (1000 * 1000 * 1000)
NsecCarry(n) == n \div (1000 * 1000 * 1000)

\* the high halves of timeout_ms that are tried
MsHigh == {0, 1, Half - 1}

\* the low halves of timeout_ms that are tried
MsLow == 0..MaxMsLow \cup {Half - 1}

\* the tv_usec values tried for a timeout with remainder r: the ends of the
\* range, a value in the middle, and the two values around the carry
UsecChoices(r) ==
    {0, 123456, 999999}
        \cup ({999999 - (1000 * r), 1000000 - (1000 * r)} \cap 0..999999)

\* cond_wait_timeout is entered on posix and gettimeofday has filled now
InitDeadline ==
    /\ build = "posix"
    /\ pc = [c \in {"waiter"} |-> "l212"]
    /\ mutex_init
    /\ CondInit({})
    /\ OnceInit
    /\ WorkInit({})
    /\ ThrInit({})
    /\ timeout_ms \in [hi : MsHigh, lo : MsLow]
    /\ now \in [tv_sec : {0, 2000000000},
                tv_usec : UsecChoices(umod1000(timeout_ms))]
    /\ ts = [tv_sec |-> 0, tv_nsec |-> 0]

\* ts.tv_sec = now.tv_sec + timeout_ms / 1000;
DeadlineSec ==
    /\ pc["waiter"] = "l212"
    /\ ts' = [ts EXCEPT !.tv_sec = now.tv_sec + udiv1000(timeout_ms)]
    /\ pc' = [pc EXCEPT !["waiter"] = "l213"]
    /\ UNCHANGED <<build, timeout_ms, now, notDl>>

\* ts.tv_nsec = now.tv_usec * 1000 + 1000 * 1000 * (timeout_ms % 1000);
DeadlineNsec ==
    /\ pc["waiter"] = "l213"
    /\ ts' = [ts EXCEPT !.tv_nsec = (now.tv_usec * 1000)
                            + (1000 * 1000 * umod1000(timeout_ms))]
    /\ pc' = [pc EXCEPT !["waiter"] = "l214"]
    /\ UNCHANGED <<build, timeout_ms, now, notDl>>

\* ts.tv_sec += ts.tv_nsec / (1000 * 1000 * 1000);
DeadlineCarry ==
    /\ pc["waiter"] = "l214"
    /\ ts' = [ts EXCEPT !.tv_sec = ts.tv_sec + NsecCarry(ts.tv_nsec)]
    /\ pc' = [pc EXCEPT !["waiter"] = "l215"]
    /\ UNCHANGED <<build, timeout_ms, now, notDl>>

\* ts.tv_nsec %= (1000 * 1000 * 1000); pthread_cond_timedwait is called
\* with &ts next
DeadlineNorm ==
    /\ pc["waiter"] = "l215"
    /\ ts' = [ts EXCEPT !.tv_nsec = ts.tv_nsec % (1000 * 1000 * 1000)]
    /\ pc' = [pc EXCEPT !["waiter"] = "l217"]
    /\ UNCHANGED <<build, timeout_ms, now, notDl>>

NextDeadline ==
    \/ DeadlineSec
    \/ DeadlineNsec
    \/ DeadlineCarry
    \/ DeadlineNorm

SpecDeadline == InitDeadline /\ [][NextDeadline]_vars

\* the largest signed 32-bit value
Int32Max == ((2^30 - 1) * 2) + 1

\* timeout_ms = 1000 * d + r, compared half by half: with
\* timeout_ms = 2^16 * hi + lo, half the difference of 1000 * d and
\* 2^16 * hi is 500 * d - 2^15 * hi
TimeoutIs(d, r) ==
    /\ d \in 0..4294967
    /\ r \in 0..999
    /\ (2 * ((500 * d) - ((Half \div 2) * timeout_ms.hi))) + r = timeout_ms.lo

\* C18: in the posix cond_wait_timeout, for every unsigned 32-bit timeout_ms
\* and every tv_usec in 0..999999, the deadline handed to
\* pthread_cond_timedwait is the entry time plus exactly timeout_ms
\* milliseconds: with c the whole seconds carried out of the nanoseconds,
\* tv_sec - now.tv_sec - c seconds and tv_nsec + c * 10^9 - now.tv_usec *
\* 10^3 nanoseconds (a whole number r of milliseconds) make up timeout_ms;
\* tv_nsec is within 0..999999999, and no nanosecond value on the way
\* exceeds the signed 32-bit range.
C18_DeadlineExact ==
    /\ pc["waiter"] = "l217" =>
          /\ ts.tv_nsec \in 0..999999999
          /\ \E c \in {0, 1} :
                LET ns == (ts.tv_nsec + (c * 1000000000))
                              - (now.tv_usec * 1000)
                IN  /\ ns % 1000000 = 0
                    /\ TimeoutIs(ts.tv_sec - now.tv_sec - c, ns \div 1000000)
    /\ now.tv_usec * 1000 \in 0..Int32Max
    /\ 1000 * 1000 * umod1000(timeout_ms) \in 0..Int32Max
    /\ ts.tv_nsec \in 0..Int32Max

\* C18 witness: timeout_ms = 2^32 - 1 and tv_usec = 999999: the nanoseconds
\* were carried into the seconds and the deadline is ready
C18_Witness ==
    /\ pc["waiter"] = "l217"
    /\ timeout_ms = [hi |-> Half - 1, lo |-> Half - 1]
    /\ now.tv_usec = 999999
    /\ ts.tv_sec = now.tv_sec + 4294968
    /\ ts.tv_nsec = 294999000

---------------------------------------------------------------------------
(* The claims about the condition variable. *)

\* what the wait primitive returns when the timeout passed
TimedOutResult == IF build = "win32" THEN WAIT_TIMEOUT ELSE ETIMEDOUT

\* C1: in both builds, a cond_wait / cond_wait_timeout call made with the
\* mutex held returns with the caller holding the mutex again.
C1_WaitReturnsHoldingMutex ==
    \A t \in CT :
        pc[t] = "ret" /\ wres[t] \in {0, TimedOutResult} => owner = t

\* C2: in both builds cond_wait_timeout returns 0 when released by a signal
\* and when the timeout passed, and nonzero only when the wait failed for
\* another reason.
C2_TimedWaitStatus ==
    \A t \in CT :
        pc[t] = "ret" /\ call[t] = "cond_wait_timeout" =>
            (ret[t] = 0 <=> wres[t] \in {0, TimedOutResult})

\* C7: when cond_signal is called while a thread is blocked in cond_wait, a
\* blocked thread is released, and a released thread's wait returns 0 in the
\* end (fair scheduling, the mutex available again and again).
C7_SignalReleasesWaiter ==
    /\ [][(/\ nSigCalls' = nSigCalls + 1
           /\ \E w \in CT : pc[w] = "blocked" /\ call[w] = "cond_wait")
          => \E w \in Blocked :
                \/ pc'[w] = "ret" /\ ret'[w] = 0
                \/ pc'[w] = "reacquire" /\ wres'[w] = 0]_vars
    /\ \A w \in CT :
          (pc[w] = "reacquire" /\ wres[w] = 0) ~> (pc[w] = "ret" /\ ret[w] = 0)

\* C7 witness: a posix cond_wait, which only a signal ends, has returned 0
C7_Witness ==
    \E w \in CT :
        /\ build = "posix"
        /\ pc[w] = "ret" /\ call[w] = "cond_wait" /\ ret[w] = 0
        /\ nSignal >= 1

\* C8: the waits that have returned because of a signal are at most as many
\* as the cond_signal calls that succeeded.
C8_OneSignalOneWaiter ==
    nWoken <= nSignal

\* C8 witness: one signal was sent, one waiter came back, another still waits
C8_Witness ==
    /\ nSignal = 1 /\ nWoken = 1
    /\ \E w \in CT : pc[w] = "ret" /\ wres[w] = 0
    /\ \E w \in CT : pc[w] = "blocked"

\* C9: in the semaphore emulation every successful cond_signal sent while
\* nobody is blocked adds one permit, the permits are exactly the signals
\* not yet used by a waiter, no thread stays blocked while there is a permit,
\* and a wait that finds a permit returns 0 at once and uses up one permit.
C9_PermitsPersist ==
    /\ [](build = "win32" =>
            /\ sem = nSignal - nWoken
            /\ (sem > 0 => Blocked = {}))
    /\ [][build = "win32" =>
            /\ (nSignal' = nSignal + 1 /\ Blocked = {} => sem' = sem + 1)
            /\ \A t \in CT :
                  (pc[t] = "unlocked" /\ pc'[t] # "unlocked" /\ sem > 0)
                  => (pc'[t] = "ret" /\ ret'[t] = 0 /\ sem' = sem - 1)]_vars

\* C9 witness: two signals, a single thread has ever waited and its
\* cond_wait returned 0, and one permit is still there
C9_Witness ==
    /\ build = "win32" /\ nSignal = 2 /\ nWoken = 1 /\ sem = 1
    /\ \E t \in CT :
          /\ pc[t] = "ret" /\ call[t] = "cond_wait" /\ ret[t] = 0
          /\ \A u \in CT \ {t} : call[u] = "none"

\* the fairness above, and a thread that has released the mutex in the
\* win32 cond_wait goes on to its WaitForSingleObject call
WindowFairness ==
    /\ Fairness
    /\ \A t \in CT : WF_vars(WaitForSingleObject(t))

\* the state after mutex_init and cond_init, the history winSig being kept
InitWindow ==
    /\ build \in Builds
    /\ pc = [t \in CT |-> "idle"]
    /\ mutex_init
    /\ CondInitWith(CT, NoThread)
    /\ OnceInit
    /\ NoDeadline
    /\ WorkInit({})
    /\ ThrInit({})

SpecWindow == InitWindow /\ [][Next]_vars /\ WindowFairness

\* C15: in the semaphore emulation a cond_signal that succeeds while a
\* thread, the only one waiting, has released the mutex and has not yet
\* blocked in WaitForSingleObject is not lost to that thread: its wait
\* returns 0, no further cond_signal being needed.
C15_WindowSignalWakes ==
    \A t \in CT :
        (winSig = t) ~> (pc[t] = "ret" /\ wres[t] = WAIT_OBJECT_0)

=============================================================================
